---- MODULE Spec2Model ----
(***************************************************************************)
(* Runtime variables ("stated") for Home Assistant: the Variable entity    *)
(* (typed value, TTL/expiry state machine, change events) and the storage  *)
(* collection that the stated.set / stated.delete services drive.          *)
(*                                                                         *)
(* Python values are modelled as tagged records so that values of          *)
(* different Python types can be compared:                                 *)
(*   k = "none" | "bool" | "int" | "float" | "str"                        *)
(*   n = the number (bool: 0/1, float: in tenths), s = the string.         *)
(* The host platform's collection, scheduler and event bus are modelled    *)
(* by what the handlers of this repository observe of them: the stored     *)
(* mapping is persisted write-through, listeners of a collection change    *)
(* run in a later event-loop turn than the mutation of the mapping, and a  *)
(* due timer runs the handler up to its first suspension in one turn.      *)
(***************************************************************************)
EXTENDS Integers, Sequences, FiniteSets, TLC

(***************************************************************************)
(* Bounds of the model.                                                    *)
(***************************************************************************)
\* service calls (set, delete, delete_prefix, set_value, toggle, restart) in
\* one behaviour
MaxCalls == 3
\* service handlers suspended at a collection notification at the same time
MaxTasks == 2

(***************************************************************************)
(* const.py                                                                *)
(***************************************************************************)
TYPE_BOOLEAN == "boolean"
TYPE_NUMBER == "number"
TYPE_STRING == "string"
DEFAULT_TYPE == TYPE_STRING
EXPIRE_ACTION_RESET == "reset"
EXPIRE_ACTION_DELETE == "delete"
DEFAULT_EXPIRE_ACTION == EXPIRE_ACTION_RESET
STATE_ON == "on"
STATE_OFF == "off"

(***************************************************************************)
(* Python values.                                                          *)
(***************************************************************************)
PyNone == [k |-> "none", n |-> 0, s |-> ""]
PyBool(b) == [k |-> "bool", n |-> IF b THEN 1 ELSE 0, s |-> ""]
PyInt(i) == [k |-> "int", n |-> i, s |-> ""]
PyFloat(tenths) == [k |-> "float", n |-> tenths, s |-> ""]
PyStr(str) == [k |-> "str", n |-> 0, s |-> str]
\* a key that is not in a dict (call.data, config)
Absent == [k |-> "absent", n |-> 0, s |-> ""]

\* truth value of a Python value (`if value`, `not value`, bool(value))
Truthy(v) ==
    CASE v.k = "none" -> FALSE
      [] v.k = "str" -> v.s # ""
      [] OTHER -> v.n # 0

\* str.lower() on the strings of the model
Lower(str) ==
    CASE str = "On" -> "on"
      [] str = "True" -> "true"
      [] str = "False" -> "false"
      [] OTHER -> str

\* str(value) for a value that is not None
Str(v) ==
    CASE v.k = "str" -> v.s
      [] v.k = "bool" -> IF v.n = 1 THEN "True" ELSE "False"
      [] v.k = "int" /\ v.n = 0 -> "0"
      [] v.k = "int" /\ v.n = 1 -> "1"
      [] v.k = "int" /\ v.n = 2 -> "2"
      [] v.k = "float" /\ v.n = 15 -> "1.5"
      [] OTHER -> "?"

\* int(str): the strings of the model that int() accepts
IntStrings == {"0", "1", "2"}
ParseInt(str) == CASE str = "0" -> 0 [] str = "1" -> 1 [] OTHER -> 2
\* float(str): the strings of the model float() accepts and int() does not
FloatStrings == {"1.5"}
ParseFloat(str) == IF str = "1.5" THEN 15 ELSE 0
\* "." in str
HasDot(str) == str = "1.5"

(***************************************************************************)
(* Variable: coercion, default expiry value, display state.                *)
(***************************************************************************)
\* Variable._coerce, numeric branch for a value that is neither int nor float
CoerceNumberFromOther(value) ==
    IF value.k = "str" /\ HasDot(value.s)
    THEN IF value.s \in FloatStrings THEN PyFloat(ParseFloat(value.s)) ELSE PyInt(0)
    ELSE IF value.k = "str" /\ value.s \in IntStrings THEN PyInt(ParseInt(value.s))
    ELSE IF value.k = "str" /\ value.s \in FloatStrings THEN PyFloat(ParseFloat(value.s))
    ELSE PyInt(0)

\* Variable._coerce(value) of a variable whose _var_type is var_type
Coerce(var_type, value) ==
    IF value.k = "none" THEN PyNone
    ELSE IF var_type = TYPE_BOOLEAN
    THEN IF value.k = "bool" THEN value
         ELSE IF value.k = "str"
         THEN PyBool(Lower(value.s) \in {"on", "true", "1", "yes"})
         ELSE PyBool(Truthy(value))
    ELSE IF var_type = TYPE_NUMBER
    THEN IF value.k \in {"bool", "int", "float"}   \* bool is a subclass of int
         THEN value
         ELSE CoerceNumberFromOther(value)
    ELSE PyStr(Str(value))

\* Variable._get_default_expire_value
GetDefaultExpireValue(var_type) ==
    IF var_type = TYPE_BOOLEAN THEN PyBool(FALSE)
    ELSE IF var_type = TYPE_NUMBER THEN PyInt(0)
    ELSE PyStr("")

\* Variable._format_state(value): the state string, or None
FormatState(var_type, value) ==
    IF var_type = TYPE_BOOLEAN
    THEN PyStr(IF Truthy(value) THEN STATE_ON ELSE STATE_OFF)
    ELSE IF value.k = "none" THEN PyNone
    ELSE PyStr(Str(value))

(***************************************************************************)
(* Dicts (call.data, create_data, stored items): `has` is the set of keys  *)
(* the dict holds; a field whose key is not in `has` holds a placeholder.  *)
(***************************************************************************)
EmptyAttrs == [x \in {} |-> 0]

Dict(has, id, name, value, var_type, icon, attributes, ttl, expire_to, expire_action) ==
    [has |-> has, id |-> id, name |-> name, value |-> value, var_type |-> var_type,
     icon |-> icon, attributes |-> attributes, ttl |-> ttl, expire_to |-> expire_to,
     expire_action |-> expire_action]

EmptyDict == Dict({}, "", "", Absent, "", Absent, EmptyAttrs, 0, Absent, "")

\* dict.get(key, default)
Get(d, key, default) == IF key \in d.has THEN d[key] ELSE default

\* {**a, **b}
DictMerge(a, b) ==
    [has |-> a.has \cup b.has,
     id |-> Get(b, "id", a.id),
     name |-> Get(b, "name", a.name),
     value |-> Get(b, "value", a.value),
     var_type |-> Get(b, "var_type", a.var_type),
     icon |-> Get(b, "icon", a.icon),
     attributes |-> Get(b, "attributes", a.attributes),
     ttl |-> Get(b, "ttl", a.ttl),
     expire_to |-> Get(b, "expire_to", a.expire_to),
     expire_action |-> Get(b, "expire_action", a.expire_action)]

\* attributes.update(more)
AttrsUpdate(attrs, more) ==
    [x \in (DOMAIN attrs) \cup (DOMAIN more) |->
        IF x \in DOMAIN more THEN more[x] ELSE attrs[x]]

\* d[key] = v for the keys the handlers assign
WithValue(d, v) == [d EXCEPT !.has = @ \cup {"value"}, !.value = v]
WithVarType(d, t) == [d EXCEPT !.has = @ \cup {"var_type"}, !.var_type = t]
WithIcon(d, v) == [d EXCEPT !.has = @ \cup {"icon"}, !.icon = v]
WithAttributes(d, a) == [d EXCEPT !.has = @ \cup {"attributes"}, !.attributes = a]
WithName(d, nm) == [d EXCEPT !.has = @ \cup {"name"}, !.name = nm]
WithId(d, i) == [d EXCEPT !.has = @ \cup {"id"}, !.id = i]
WithTtl(d, ttl) == [d EXCEPT !.has = @ \cup {"ttl"}, !.ttl = ttl]
WithExpireAction(d, a) ==
    [d EXCEPT !.has = @ \cup {"expire_action"}, !.expire_action = a]
WithExpireTo(d, v) == [d EXCEPT !.has = @ \cup {"expire_to"}, !.expire_to = v]

\* homeassistant.util.slugify on the names of the model
Slugify(nm) ==
    CASE nm = "A" -> "a"
      [] nm = "A b" -> "a_b"
      [] OTHER -> nm

\* faulty variant of the ttl validator: every number passes
TtlValidAny(d) == TRUE

\* vol.All(vol.Coerce(int), vol.Range(min=1)) on an optional ttl: the call
\* passes validation
TtlValid(d) == "ttl" \in d.has => d.ttl >= 1

\* the schema of the stated.set service: the defaults it fills in
SetServiceSchema(d) ==
    LET d1 == IF "value" \in d.has THEN d ELSE WithValue(d, PyStr(""))
        d2 == IF "var_type" \in d1.has THEN d1 ELSE WithVarType(d1, DEFAULT_TYPE)
        d3 == IF "attributes" \in d2.has THEN d2 ELSE WithAttributes(d2, EmptyAttrs)
    IN  IF "expire_action" \in d3.has THEN d3
            ELSE WithExpireAction(d3, DEFAULT_EXPIRE_ACTION)

\* SET_VALUE_SCHEMA: the default it fills in
SetValueSchema(d) ==
    IF "expire_action" \in d.has THEN d
    ELSE WithExpireAction(d, DEFAULT_EXPIRE_ACTION)

\* VariableStorageCollection.CREATE_UPDATE_SCHEMA: the defaults it fills in
CreateUpdateSchema(d) ==
    LET d1 == IF "value" \in d.has THEN d ELSE WithValue(d, PyStr(""))
        d2 == IF "var_type" \in d1.has THEN d1 ELSE WithVarType(d1, DEFAULT_TYPE)
    IN  IF "attributes" \in d2.has THEN d2 ELSE WithAttributes(d2, EmptyAttrs)

\* VariableStorageCollection._update_data
UpdateData(item, update_data) == DictMerge(item, CreateUpdateSchema(update_data))

\* DictStorageCollection._create_item after _process_create_data
CreateItem(item_id, create_data) == WithId(CreateUpdateSchema(create_data), item_id)

\* async_handle_set: the create_data it builds from call.data
CreateData(call) ==
    LET base == WithVarType(
                    WithValue(WithName(EmptyDict, call.name),
                              Get(call, "value", PyStr(""))),
                    Get(call, "var_type", DEFAULT_TYPE))
        withIcon == IF "icon" \in call.has THEN WithIcon(base, call.icon) ELSE base
    IN  IF "attributes" \in call.has
        THEN WithAttributes(withIcon, call.attributes)
        ELSE withIcon

(***************************************************************************)
(* Variable (the entity).  ttl_unsub: the variable holds a cancellation    *)
(* handle; expires_at: 0 for None, else the ttl the expiry time was        *)
(* computed from (time is counted from the arming); expire_to: PyNone for  *)
(* None.  The number n of callbacks the scheduler holds for the variable   *)
(* is passed to and returned by the operations that schedule or cancel.    *)
(***************************************************************************)
NoEvent ==
    [fired |-> FALSE, id |-> "", name |-> "", var_type |-> "",
     old_value |-> PyNone, new_value |-> PyNone]

\* faulty variant of __init__: takes the stored value as it is
NewVariableNoCoerce(config) ==
    [config |-> config,
     var_type |-> Get(config, "var_type", DEFAULT_TYPE),
     value |-> Get(config, "value", PyStr("")),
     attributes |-> Get(config, "attributes", EmptyAttrs),
     ttl_unsub |-> FALSE,
     expires_at |-> 0,
     expire_to |-> PyNone,
     expire_action |-> DEFAULT_EXPIRE_ACTION]

\* Variable.__init__ / from_storage
NewVariable(config) ==
    [config |-> config,
     var_type |-> Get(config, "var_type", DEFAULT_TYPE),
     value |-> Coerce(Get(config, "var_type", DEFAULT_TYPE),
                      Get(config, "value", PyStr(""))),
     attributes |-> Get(config, "attributes", EmptyAttrs),
     ttl_unsub |-> FALSE,
     expires_at |-> 0,
     expire_to |-> PyNone,
     expire_action |-> DEFAULT_EXPIRE_ACTION]

\* Variable.state
State(e) == FormatState(e.var_type, e.value)

\* Variable.extra_state_attributes: the attributes, the type and, while an
\* expiry time is recorded, expires_at
ExtraStateAttributes(e) ==
    [attributes |-> e.attributes,
     var_type |-> e.var_type,
     has |-> IF e.expires_at # 0 THEN {"var_type", "expires_at"} ELSE {"var_type"},
     expires_at |-> e.expires_at]

\* faulty variant of _fire_value_changed: fires without comparing the states
FireValueChangedAlways(e, old_value, new_value) ==
    [fired |-> TRUE, id |-> Get(e.config, "id", ""),
     name |-> Get(e.config, "name", ""), var_type |-> e.var_type,
     old_value |-> FormatState(e.var_type, old_value),
     new_value |-> FormatState(e.var_type, new_value)]

\* Variable._fire_value_changed: the event it puts on the bus, or NoEvent
FireValueChanged(e, old_value, new_value) ==
    LET old_state == FormatState(e.var_type, old_value)
        new_state == FormatState(e.var_type, new_value)
    IN  IF old_state = new_state THEN NoEvent
        ELSE [fired |-> TRUE, id |-> Get(e.config, "id", ""),
              name |-> Get(e.config, "name", ""), var_type |-> e.var_type,
              old_value |-> old_state, new_value |-> new_state]

\* faulty variant of apply_ttl: records the TTL without scheduling a callback
ApplyTtlNoSchedule(e, n, ttl, expire_to, expire_action) ==
    [e |-> [e EXCEPT !.expire_action = expire_action,
                     !.expire_to = IF expire_to.k # "none"
                                   THEN Coerce(e.var_type, expire_to)
                                   ELSE GetDefaultExpireValue(e.var_type),
                     !.expires_at = ttl,
                     !.ttl_unsub = TRUE],
     n |-> IF e.ttl_unsub /\ n > 0 THEN n - 1 ELSE n,
     event |-> NoEvent]

\* faulty variant of apply_ttl: arms without cancelling the TTL armed before
ApplyTtlNoCancel(e, n, ttl, expire_to, expire_action) ==
    [e |-> [e EXCEPT !.expire_action = expire_action,
                     !.expire_to = IF expire_to.k # "none"
                                   THEN Coerce(e.var_type, expire_to)
                                   ELSE GetDefaultExpireValue(e.var_type),
                     !.expires_at = ttl,
                     !.ttl_unsub = TRUE],
     n |-> n + 1,
     event |-> NoEvent]

\* Variable.apply_ttl
ApplyTtl(e, n, ttl, expire_to, expire_action) ==
    LET cancelled == IF e.ttl_unsub /\ n > 0 THEN n - 1 ELSE n
    IN  [e |-> [e EXCEPT !.expire_action = expire_action,
                         !.expire_to = IF expire_to.k # "none"
                                       THEN Coerce(e.var_type, expire_to)
                                       ELSE GetDefaultExpireValue(e.var_type),
                         !.expires_at = ttl,
                         !.ttl_unsub = TRUE],
         n |-> cancelled + 1,
         event |-> NoEvent]

\* faulty variant of _cancel_ttl: clears the record, leaves the callback
CancelTtlKeepsCallback(e, n) ==
    IF e.ttl_unsub
    THEN [e |-> [e EXCEPT !.ttl_unsub = FALSE, !.expires_at = 0,
                          !.expire_to = PyNone,
                          !.expire_action = DEFAULT_EXPIRE_ACTION],
          n |-> n,
          event |-> NoEvent]
    ELSE [e |-> e, n |-> n, event |-> NoEvent]

\* Variable._cancel_ttl
CancelTtl(e, n) ==
    IF e.ttl_unsub
    THEN [e |-> [e EXCEPT !.ttl_unsub = FALSE, !.expires_at = 0,
                          !.expire_to = PyNone,
                          !.expire_action = DEFAULT_EXPIRE_ACTION],
          n |-> IF n > 0 THEN n - 1 ELSE n,
          event |-> NoEvent]
    ELSE [e |-> e, n |-> n, event |-> NoEvent]

\* faulty variant of the first lines of _ttl_expired: the expiry time stays
TtlExpiredClearKeepsExpiresAt(e) ==
    IF e.expire_action = EXPIRE_ACTION_DELETE
    THEN [e EXCEPT !.ttl_unsub = FALSE, !.expire_to = PyNone,
                   !.expire_action = DEFAULT_EXPIRE_ACTION]
    ELSE [e EXCEPT !.ttl_unsub = FALSE]

\* Variable._ttl_expired, the lines both expiry actions run (436-442)
TtlExpiredClear(e) ==
    IF e.expire_action = EXPIRE_ACTION_DELETE
    THEN [e EXCEPT !.ttl_unsub = FALSE, !.expires_at = 0, !.expire_to = PyNone,
                   !.expire_action = DEFAULT_EXPIRE_ACTION]
    ELSE [e EXCEPT !.ttl_unsub = FALSE, !.expires_at = 0]

\* faulty variant of the reset branch: resets to the type's default, not to
\* the captured expire_to
TtlExpiredResetToDefault(e) ==
    LET c == TtlExpiredClear(e)
        new_value == GetDefaultExpireValue(c.var_type)
        after == [c EXCEPT !.value = new_value, !.expire_to = PyNone,
                           !.expire_action = DEFAULT_EXPIRE_ACTION]
    IN  [e |-> after, event |-> FireValueChanged(after, e.value, new_value)]

\* Variable._ttl_expired, the reset branch (451-461)
TtlExpiredReset(e) ==
    LET c == TtlExpiredClear(e)
        new_value == IF c.expire_to.k # "none" THEN c.expire_to
                     ELSE GetDefaultExpireValue(c.var_type)
        after == [c EXCEPT !.value = new_value, !.expire_to = PyNone,
                           !.expire_action = DEFAULT_EXPIRE_ACTION]
    IN  [e |-> after, event |-> FireValueChanged(after, e.value, new_value)]

\* Variable.async_set_value
AsyncSetValue(e, n, value, ttl, expire_to, expire_action, has_attributes, attributes) ==
    LET new_value == Coerce(e.var_type, value)
        e1 == [e EXCEPT !.value = new_value,
                        !.attributes = IF has_attributes
                                       THEN AttrsUpdate(@, attributes) ELSE @]
        ev == FireValueChanged(e1, e.value, new_value)
        r == IF ttl # 0 THEN ApplyTtl(e1, n, ttl, expire_to, expire_action)
             ELSE CancelTtl(e1, n)
    IN  [e |-> r.e, n |-> r.n, event |-> ev]

\* faulty variant of async_toggle: cancels the TTL record as set_value does
AsyncToggleDropsTtl(e) ==
    IF e.var_type # TYPE_BOOLEAN
    THEN [e |-> e, event |-> NoEvent]
    ELSE LET new_value == PyBool(~Truthy(e.value))
             after == [e EXCEPT !.value = new_value,
                                !.ttl_unsub = FALSE,
                                !.expires_at = 0,
                                !.expire_to = PyNone,
                                !.expire_action = DEFAULT_EXPIRE_ACTION]
         IN  [e |-> after, event |-> FireValueChanged(after, e.value, new_value)]

\* faulty variant of async_toggle: flips a variable of any type
AsyncToggleAnyType(e) ==
    LET new_value == PyBool(~Truthy(e.value))
        after == [e EXCEPT !.value = new_value]
    IN  [e |-> after, event |-> FireValueChanged(after, e.value, new_value)]

\* Variable.async_toggle
AsyncToggle(e) ==
    IF e.var_type # TYPE_BOOLEAN
    THEN [e |-> e, event |-> NoEvent]
    ELSE LET new_value == PyBool(~Truthy(e.value))
             after == [e EXCEPT !.value = new_value]
         IN  [e |-> after, event |-> FireValueChanged(after, e.value, new_value)]

\* faulty variant of async_update_config: forgets the armed TTL
AsyncUpdateConfigDropsTtl(e, config) ==
    LET var_type == Get(config, "var_type", DEFAULT_TYPE)
        new_value == Coerce(var_type, Get(config, "value", PyStr("")))
        after == [e EXCEPT !.config = config,
                           !.var_type = var_type,
                           !.value = new_value,
                           !.attributes = IF "attributes" \in config.has
                                          THEN config.attributes ELSE @,
                           !.ttl_unsub = FALSE,
                           !.expires_at = 0,
                           !.expire_to = PyNone,
                           !.expire_action = DEFAULT_EXPIRE_ACTION]
    IN  [e |-> after, event |-> FireValueChanged(after, e.value, new_value)]

\* Variable.async_update_config
AsyncUpdateConfig(e, config) ==
    LET var_type == Get(config, "var_type", DEFAULT_TYPE)
        new_value == Coerce(var_type, Get(config, "value", PyStr("")))
        after == [e EXCEPT !.config = config,
                           !.var_type = var_type,
                           !.value = new_value,
                           !.attributes = IF "attributes" \in config.has
                                          THEN config.attributes ELSE @]
    IN  [e |-> after, event |-> FireValueChanged(after, e.value, new_value)]

(***************************************************************************)
(* The inputs of the model: names, service calls.                          *)
(***************************************************************************)
Names == {"a", "A", "ab"}
Ids == {Slugify(nm) : nm \in Names}

Named(nm) == WithName(EmptyDict, nm)
\* stated.delete_prefix calls: a prefix of both ids, and one of "ab" alone
Prefixes == {"A", "ab"}
Attrs1 == [x \in {"k1"} |-> 1]
Attrs2 == [x \in {"k2"} |-> 2]

\* stated.set calls, as the caller sends them
SetInputs ==
    { \* boolean with a TTL that resets to the type's default
      WithTtl(WithVarType(WithValue(Named("a"), PyStr("on")), TYPE_BOOLEAN), 1),
      \* boolean with a TTL that deletes
      WithExpireAction(
          WithTtl(WithVarType(WithValue(Named("a"), PyStr("on")), TYPE_BOOLEAN), 1),
          EXPIRE_ACTION_DELETE),
      \* number with icon and attributes
      WithAttributes(
          WithIcon(WithVarType(WithValue(Named("A"), PyInt(1)), TYPE_NUMBER),
                   PyStr("mdi:a")),
          Attrs1),
      \* the name alone
      Named("a"),
      \* string (type left out) with attributes and a TTL that resets to "1"
      WithExpireTo(
          WithTtl(WithAttributes(WithValue(Named("a"), PyStr("x")), Attrs2), 2),
          PyStr("1")),
      \* a second variable
      WithVarType(WithValue(Named("ab"), PyStr("1.5")), TYPE_NUMBER),
      \* a ttl of zero
      WithTtl(WithValue(Named("a"), PyStr("y")), 0) }

\* set_value calls, as the caller sends them
SetValueInputs ==
    { WithValue(EmptyDict, PyStr("off")),
      WithValue(EmptyDict, PyNone),
      WithAttributes(WithValue(EmptyDict, PyInt(1)), Attrs2),
      WithTtl(WithValue(EmptyDict, PyStr("on")), 1),
      WithExpireAction(
          WithExpireTo(WithTtl(WithValue(EmptyDict, PyNone), 2), PyStr("on")),
          EXPIRE_ACTION_DELETE),
      \* a negative ttl
      WithTtl(WithValue(EmptyDict, PyStr("y")), -1) }

(***************************************************************************)
(* State.                                                                  *)
(***************************************************************************)
VARIABLES
    data,      \* storage_collection.data: id -> stored item (persisted write-through)
    order,     \* the ids of data in insertion order (the order a dict iterates in)
    ent,       \* the live entities of the component: id -> Variable
    timers,    \* id -> number of callbacks the scheduler holds for the entity
    tasks,     \* handlers suspended at a collection notification, oldest first
    emitted,   \* the stated.value_changed event the last step fired, or NoEvent
    last,      \* the last step: [op, id, call, armed, repeat, count, after_toggle]
    capture,   \* id -> what the pending TTL was asked to reset to when armed
    calls      \* number of service calls and restarts so far

vars == <<data, order, ent, timers, tasks, emitted, last, capture, calls>>

\* a mapping with key i set to v / without key i
Put(f, i, v) == [x \in (DOMAIN f) \cup {i} |-> IF x = i THEN v ELSE f[x]]
Pop(f, i) == [x \in (DOMAIN f) \ {i} |-> f[x]]
\* the ids of d in dict order: the ids kept stay where they are, a new id
\* goes to the end
KeysAfter(ord, d) ==
    LET kept == SelectSeq(ord, LAMBDA x : x \in DOMAIN d)
        new == DOMAIN d \ {ord[j] : j \in 1..Len(ord)}
    IN  IF new = {} THEN kept ELSE Append(kept, CHOOSE x \in new : TRUE)
\* a sequence without its k-th element
Without(sq, k) == [j \in 1..(Len(sq) - 1) |-> IF j < k THEN sq[j] ELSE sq[j + 1]]

\* the variable holds a cancellation handle
Armed(i) == i \in DOMAIN ent /\ ent[i].ttl_unsub

\* the record of a step: call = the call as the caller sent it, armed = the
\* variable held a handle before the step, repeat = the step before was the
\* same call on the same variable, after_toggle = the step before was a
\* toggle of the same variable while it held a handle
Step(op, i, call) ==
    [op |-> op, id |-> i, call |-> call, armed |-> Armed(i),
     repeat |-> last.op = op /\ last.id = i /\ last.call = call,
     count |-> 0,
     after_toggle |-> last.op = "toggle" /\ last.id = i /\ last.armed]

\* what a call asks of the TTL it arms on a variable of var_type: the reset
\* value (the given expire_to coerced, or false / 0 / "" when none is given),
\* the ttl and the expiry action
NoCapture == [to |-> PyNone, ttl |-> 0, action |-> ""]
Asked(var_type, call) ==
    [to |-> IF "expire_to" \in call.has /\ call.expire_to.k # "none"
            THEN Coerce(var_type, call.expire_to)
            ELSE CASE var_type = TYPE_BOOLEAN -> PyBool(FALSE)
                   [] var_type = TYPE_NUMBER -> PyInt(0)
                   [] OTHER -> PyStr(""),
     ttl |-> call.ttl,
     action |-> IF "expire_action" \in call.has THEN call.expire_action
                ELSE "reset"]

\* capture after a step that leaves the pending callbacks tm and arms a TTL
\* asking for v on variable i ("" when the step arms none)
NextCapture(tm, i, v) ==
    [x \in Ids |-> IF tm[x] = 0 THEN NoCapture ELSE IF x = i THEN v ELSE capture[x]]
\* rest / total: for delete_prefix, the ids of to_delete still to come and
\* len(to_delete); at: the number of service calls made before this one;
\* solo: no other handler was suspended when this one started
Task(pc, i, item, call) ==
    [pc |-> pc, id |-> i, item |-> item, call |-> call,
     rest |-> <<>>, total |-> 0, at |-> calls, solo |-> tasks = <<>>]
ListenerPcs == {"added", "updated", "removed"}

Init ==
    /\ data = [x \in {} |-> EmptyDict]
    /\ order = <<>>
    /\ ent = [x \in {} |-> NewVariable(EmptyDict)]
    /\ timers = [i \in Ids |-> 0]
    /\ tasks = <<>>
    /\ emitted = NoEvent
    /\ last = [op |-> "init", id |-> "", call |-> EmptyDict, armed |-> FALSE,
               repeat |-> FALSE, count |-> 0, after_toggle |-> FALSE]
    /\ capture = [i \in Ids |-> NoCapture]
    /\ calls = 0

(***************************************************************************)
(* stated.set: async_handle_set up to the collection's notify_changes      *)
(* (the stored mapping changes now, the listeners run in a later turn).    *)
(***************************************************************************)
HandleSetStore(d, call) ==
    LET slug == Slugify(call.name)
        create_data == CreateData(call)
    IN  IF slug \in DOMAIN d
        THEN [data |-> [d EXCEPT ![slug] = UpdateData(d[slug], create_data)],
              pc |-> "updated"]
        ELSE [data |-> Put(d, slug, CreateItem(slug, create_data)),
              pc |-> "added"]

HandleSet(input) ==
    LET call == SetServiceSchema(input)
        slug == Slugify(call.name)
        r == HandleSetStore(data, call)
    IN  /\ calls < MaxCalls
        /\ Len(tasks) < MaxTasks
        /\ IF ~TtlValid(input)
           THEN \* vol.Invalid: the handler is not called
                /\ last' = Step("set_invalid", slug, input)
                /\ UNCHANGED <<data, order, tasks>>
           ELSE /\ data' = r.data
                /\ order' = KeysAfter(order, data')
                /\ tasks' = Append(tasks, Task(r.pc, slug, r.data[slug], call))
                /\ last' = Step("set", slug, input)
        /\ emitted' = NoEvent
        /\ calls' = calls + 1
        /\ UNCHANGED <<ent, timers, capture>>

\* a listener runs when no older notification is waiting
ListenerTurn(k) ==
    /\ k \in 1..Len(tasks)
    /\ tasks[k].pc \in ListenerPcs
    /\ \A j \in 1..(k - 1) : tasks[j].pc \notin ListenerPcs

\* async_handle_set after the await: lines 150-156 run if a ttl was given
AfterListener(k) ==
    IF "ttl" \in tasks[k].call.has
    THEN [tasks EXCEPT ![k].pc = "apply_ttl"]
    ELSE Without(tasks, k)

\* sync_entity_lifecycle on CHANGE_ADDED: Variable.from_storage(item)
AddEntity(k) ==
    LET t == tasks[k]
    IN  /\ ListenerTurn(k)
        /\ t.pc = "added"
        /\ ent' = IF t.id \in DOMAIN ent THEN ent
                  ELSE Put(ent, t.id, NewVariable(t.item))
        /\ tasks' = AfterListener(k)
        /\ emitted' = NoEvent
        /\ last' = Step("add_entity", t.id, t.call)
        /\ UNCHANGED <<data, order, timers, capture, calls>>

\* sync_entity_lifecycle on CHANGE_UPDATED: entity.async_update_config(item)
UpdateEntity(k) ==
    LET t == tasks[k]
        r == AsyncUpdateConfig(ent[t.id], t.item)
    IN  /\ ListenerTurn(k)
        /\ t.pc = "updated"
        /\ IF t.id \in DOMAIN ent
           THEN ent' = [ent EXCEPT ![t.id] = r.e] /\ emitted' = r.event
           ELSE ent' = ent /\ emitted' = NoEvent
        /\ tasks' = AfterListener(k)
        /\ last' = Step("update_config", t.id, t.call)
        /\ UNCHANGED <<data, order, timers, capture, calls>>

\* async_handle_set lines 150-156: apply the TTL to the live entity
SetApplyTtl(k) ==
    LET t == tasks[k]
        r == ApplyTtl(ent[t.id], timers[t.id], t.call.ttl,
                      Get(t.call, "expire_to", PyNone),
                      Get(t.call, "expire_action", DEFAULT_EXPIRE_ACTION))
    IN  /\ k \in 1..Len(tasks)
        /\ t.pc = "apply_ttl"
        /\ IF t.id \in DOMAIN ent
           THEN /\ ent' = [ent EXCEPT ![t.id] = r.e]
                /\ timers' = [timers EXCEPT ![t.id] = r.n]
                /\ capture' = NextCapture(timers', t.id,
                                          Asked(ent[t.id].var_type, t.call))
           ELSE UNCHANGED <<ent, timers, capture>>
        /\ tasks' = Without(tasks, k)
        /\ emitted' = NoEvent
        /\ last' = Step("apply_ttl", t.id, t.call)
        /\ UNCHANGED <<data, order, calls>>

(***************************************************************************)
(* stated.delete and the removal of the entity.                            *)
(***************************************************************************)
HandleDelete(nm) ==
    LET slug == Slugify(nm)
    IN  /\ calls < MaxCalls
        /\ Len(tasks) < MaxTasks
        /\ IF slug \notin DOMAIN data
           THEN /\ last' = Step("delete_unknown", slug, EmptyDict)
                /\ UNCHANGED <<data, order, tasks>>
           ELSE /\ data' = Pop(data, slug)
                /\ order' = KeysAfter(order, data')
                /\ tasks' = Append(tasks, Task("removed", slug, data[slug], EmptyDict))
                /\ last' = Step("delete", slug, EmptyDict)
        /\ emitted' = NoEvent
        /\ calls' = calls + 1
        /\ UNCHANGED <<ent, timers, capture>>

\* faulty variant of async_will_remove_from_hass: the callback stays scheduled
WillRemoveFromHassKeepsTtl(e, n) == [e |-> e, n |-> n]

\* Variable.async_will_remove_from_hass
WillRemoveFromHass(e, n) == CancelTtl(e, n)

\* sync_entity_lifecycle on CHANGE_REMOVED: the entity is removed, and
\* Variable.async_will_remove_from_hass cancels its TTL
RemoveEntity(k) ==
    LET t == tasks[k]
        r == WillRemoveFromHass(ent[t.id], timers[t.id])
    IN  /\ ListenerTurn(k)
        /\ t.pc = "removed"
        /\ IF t.id \in DOMAIN ent
           THEN /\ ent' = Pop(ent, t.id)
                /\ timers' = [timers EXCEPT ![t.id] = r.n]
                /\ capture' = NextCapture(timers', "", NoCapture)
           ELSE UNCHANGED <<ent, timers, capture>>
        /\ tasks' = IF t.total = 0
                    THEN Without(tasks, k)
                    ELSE [tasks EXCEPT ![k].pc = "prefix_next"]
        /\ emitted' = NoEvent
        /\ last' = Step("remove_entity", t.id, EmptyDict)
        /\ UNCHANGED <<data, order, calls>>

(***************************************************************************)
(* stated.delete_prefix: the matching ids are collected first and then     *)
(* deleted one after the other; every deletion waits for the removal       *)
(* listener before the loop goes on.                                       *)
(***************************************************************************)
\* str.startswith
StartsWith(s, p) == Len(p) <= Len(s) /\ SubSeq(s, 1, Len(p)) = p

\* the list to_delete: the ids of the store that start with prefix, in the
\* order the dict iterates in
ToDelete(ord, prefix) == SelectSeq(ord, LAMBDA x : StartsWith(x, prefix))

\* async_handle_delete_prefix up to the first notification; the call is
\* recorded with the prefix in the place of the name
HandleDeletePrefix(p) ==
    LET prefix == Slugify(p)
        to_delete == ToDelete(order, prefix)
        item_id == Head(to_delete)
    IN  /\ calls < MaxCalls
        /\ Len(tasks) < MaxTasks
        /\ IF prefix = ""
           THEN /\ last' = Step("delete_prefix_empty", "", Named(p))
                /\ UNCHANGED <<data, order, tasks>>
           ELSE IF to_delete = <<>>
           THEN /\ last' = Step("delete_prefix_none", "", Named(p))
                /\ UNCHANGED <<data, order, tasks>>
           ELSE /\ data' = Pop(data, item_id)
                /\ order' = KeysAfter(order, data')
                /\ tasks' = Append(tasks,
                       [Task("removed", item_id, data[item_id], Named(p))
                           EXCEPT !.rest = Tail(to_delete),
                                  !.total = Len(to_delete)])
                /\ last' = Step("delete_prefix", item_id, Named(p))
        /\ emitted' = NoEvent
        /\ calls' = calls + 1
        /\ UNCHANGED <<ent, timers, capture>>

\* the loop of async_handle_delete_prefix after a removal listener has run:
\* the next async_delete_item, which raises ItemNotFound for an id that is
\* no longer in the store, or the closing log line with len(to_delete)
PrefixNext(k) ==
    LET t == tasks[k]
        item_id == Head(t.rest)
    IN  /\ k \in 1..Len(tasks)
        /\ t.pc = "prefix_next"
        /\ IF t.rest = <<>>
           THEN /\ tasks' = Without(tasks, k)
                /\ last' = [Step("delete_prefix_done", t.id, t.call)
                               EXCEPT !.count = t.total]
                /\ UNCHANGED <<data, order>>
           ELSE IF item_id \notin DOMAIN data
           THEN /\ tasks' = Without(tasks, k)
                /\ last' = Step("delete_prefix_raised", item_id, t.call)
                /\ UNCHANGED <<data, order>>
           ELSE /\ data' = Pop(data, item_id)
                /\ order' = KeysAfter(order, data')
                /\ tasks' = Append(Without(tasks, k),
                       [t EXCEPT !.pc = "removed", !.id = item_id,
                                 !.item = data[item_id],
                                 !.rest = Tail(t.rest)])
                /\ last' = Step("delete_prefix", item_id, t.call)
        /\ emitted' = NoEvent
        /\ UNCHANGED <<ent, timers, capture, calls>>

(***************************************************************************)
(* The entity services set_value and toggle.                               *)
(***************************************************************************)
SetValue(i, input) ==
    LET call == SetValueSchema(input)
        r == AsyncSetValue(ent[i], timers[i], call.value, Get(call, "ttl", 0),
                           Get(call, "expire_to", PyNone), call.expire_action,
                           "attributes" \in call.has, call.attributes)
    IN  /\ calls < MaxCalls
        /\ i \in DOMAIN ent
        /\ IF ~TtlValid(input)
           THEN \* vol.Invalid: async_set_value is not called
                /\ emitted' = NoEvent
                /\ last' = Step("set_value_invalid", i, input)
                /\ UNCHANGED <<ent, timers, capture>>
           ELSE /\ ent' = [ent EXCEPT ![i] = r.e]
                /\ timers' = [timers EXCEPT ![i] = r.n]
                /\ capture' = IF "ttl" \in call.has
                              THEN NextCapture(timers', i, Asked(ent[i].var_type, call))
                              ELSE NextCapture(timers', "", NoCapture)
                /\ emitted' = r.event
                /\ last' = Step("set_value", i, input)
        /\ calls' = calls + 1
        /\ UNCHANGED <<data, order, tasks>>

Toggle(i) ==
    LET r == AsyncToggle(ent[i])
    IN  /\ calls < MaxCalls
        /\ i \in DOMAIN ent
        /\ ent' = [ent EXCEPT ![i] = r.e]
        /\ emitted' = r.event
        /\ last' = Step("toggle", i, EmptyDict)
        /\ calls' = calls + 1
        /\ UNCHANGED <<data, order, timers, tasks, capture>>

(***************************************************************************)
(* The scheduler runs a due callback: Variable._ttl_expired.               *)
(***************************************************************************)
ExpireReset(i) ==
    LET r == TtlExpiredReset(ent[i])
    IN  /\ i \in DOMAIN ent
        /\ timers[i] > 0
        /\ ent[i].expire_action # EXPIRE_ACTION_DELETE
        /\ timers' = [timers EXCEPT ![i] = @ - 1]
        /\ capture' = NextCapture(timers', "", NoCapture)
        /\ ent' = [ent EXCEPT ![i] = r.e]
        /\ emitted' = r.event
        /\ last' = Step("ttl_reset", i, EmptyDict)
        /\ UNCHANGED <<data, order, tasks, calls>>

\* faulty variant of the delete branch: the item stays in the store
TtlExpiredDeleteStoreKeeps(d, uid) == d

\* Variable._ttl_expired lines 443-448: the stored mapping after the delete
TtlExpiredDeleteStore(d, uid) ==
    IF uid # "" /\ uid \in DOMAIN d THEN Pop(d, uid) ELSE d

\* the delete branch, up to the notify_changes of async_delete_item
ExpireDelete(i) ==
    LET uid == Get(ent[i].config, "id", "")
    IN  /\ i \in DOMAIN ent
        /\ timers[i] > 0
        /\ ent[i].expire_action = EXPIRE_ACTION_DELETE
        /\ timers' = [timers EXCEPT ![i] = @ - 1]
        /\ capture' = NextCapture(timers', "", NoCapture)
        /\ ent' = [ent EXCEPT ![i] = TtlExpiredClear(@)]
        /\ data' = TtlExpiredDeleteStore(data, uid)
        /\ order' = KeysAfter(order, data')
        /\ tasks' = IF data' # data
                    THEN Append(tasks, Task("removed", uid, data[uid], EmptyDict))
                    ELSE tasks
        /\ emitted' = NoEvent
        /\ last' = Step("ttl_delete", i, EmptyDict)
        /\ UNCHANGED calls

(***************************************************************************)
(* Restart: async_setup_entry loads the stored items; sync_entity_         *)
(* lifecycle builds one Variable per item.  Handlers and timers of the     *)
(* previous run are gone.                                                  *)
(***************************************************************************)
Restart ==
    /\ calls < MaxCalls
    /\ ent' = [i \in DOMAIN data |-> NewVariable(data[i])]
    /\ timers' = [i \in Ids |-> 0]
    /\ capture' = NextCapture(timers', "", NoCapture)
    /\ tasks' = <<>>
    /\ emitted' = NoEvent
    /\ last' = [Step("restart", "", EmptyDict) EXCEPT
                    !.armed = \E i \in Ids : Armed(i)]
    /\ calls' = calls + 1
    /\ UNCHANGED <<data, order>>

Next ==
    \/ \E input \in SetInputs : HandleSet(input)
    \/ \E k \in 1..Len(tasks) : AddEntity(k)
    \/ \E k \in 1..Len(tasks) : UpdateEntity(k)
    \/ \E k \in 1..Len(tasks) : SetApplyTtl(k)
    \/ \E nm \in Names : HandleDelete(nm)
    \/ \E k \in 1..Len(tasks) : RemoveEntity(k)
    \/ \E p \in Prefixes : HandleDeletePrefix(p)
    \/ \E k \in 1..Len(tasks) : PrefixNext(k)
    \/ \E i \in Ids, input \in SetValueInputs : SetValue(i, input)
    \/ \E i \in Ids : Toggle(i)
    \/ \E i \in Ids : ExpireReset(i)
    \/ \E i \in Ids : ExpireDelete(i)
    \/ Restart

Spec == Init /\ [][Next]_vars

\* the event loop runs every callback that is due: a scheduled TTL callback
\* is not postponed forever
FairSpec ==
    Spec /\ \A i \in Ids : WF_vars(ExpireReset(i) \/ ExpireDelete(i))

(***************************************************************************)
(* Properties.                                                             *)
(***************************************************************************)
\* the runtime representation a type admits (a Python bool is an int)
InDomain(var_type, v) ==
    CASE var_type = TYPE_BOOLEAN -> v.k = "bool"
      [] var_type = TYPE_NUMBER -> v.k \in {"int", "float", "bool"}
      [] OTHER -> v.k = "str"

\* C1: in every reachable state the value of every variable is None or a
\* member of the domain of the variable's current type.
C1_ValueMatchesType ==
    \A i \in DOMAIN ent :
        ent[i].value.k = "none" \/ InDomain(ent[i].var_type, ent[i].value)

\* the step taken is one that records op on variable i
Did(op, i) == last'.op = op /\ last'.id = i

\* C2: every variable has at most one pending scheduler callback, and the
\* pending one is the TTL armed last: the variable holds its handle and its
\* expiry record is the one that arming asked for.
C2_AtMostOneCallback ==
    \A i \in Ids :
        /\ timers[i] <= 1
        /\ timers[i] = 1 =>
              /\ Armed(i)
              /\ ent[i].expires_at = capture[i].ttl
              /\ ent[i].expire_action = capture[i].action
              /\ ent[i].expire_to = capture[i].to

\* a TTL has just been armed on a variable that already had one armed
C2_Witness ==
    /\ last.op \in {"set_value", "apply_ttl"}
    /\ "ttl" \in last.call.has
    /\ last.armed
    /\ timers[last.id] = 1

\* C3: when a TTL armed with the reset action fires, the value becomes the
\* reset value asked for at arm time (false / 0 / "" when none was given),
\* the TTL state is idle again, and a change event with the old and new
\* display states is fired exactly when the display state differs.
C3_ResetFires ==
    [][\A i \in Ids :
          Did("ttl_reset", i) =>
            /\ ent'[i].value = capture[i].to
            /\ ~ent'[i].ttl_unsub
            /\ ent'[i].expires_at = 0
            /\ ent'[i].expire_to = PyNone
            /\ ent'[i].expire_action = DEFAULT_EXPIRE_ACTION
            /\ timers'[i] = 0
            /\ emitted'.fired <=> State(ent[i]) # State(ent'[i])
            /\ emitted'.fired =>
                  /\ emitted'.id = i
                  /\ emitted'.old_value = State(ent[i])
                  /\ emitted'.new_value = State(ent'[i])]_vars

\* a reset TTL has fired and changed the display state
C3_Witness ==
    /\ last.op = "ttl_reset"
    /\ emitted.fired
    /\ emitted.old_value # emitted.new_value
    /\ ent[last.id].value = GetDefaultExpireValue(ent[last.id].var_type)

C5_SetValueCancels ==
    (/\ last.op = "set_value"
     /\ "ttl" \notin last.call.has
     /\ last.armed)
    => /\ last.id \in DOMAIN ent
       /\ timers[last.id] = 0
       /\ ~ent[last.id].ttl_unsub
       /\ ent[last.id].expires_at = 0
       /\ ent[last.id].expire_to = PyNone
       /\ ent[last.id].expire_action = DEFAULT_EXPIRE_ACTION
       /\ ent[last.id].value = Coerce(ent[last.id].var_type, last.call.value)

\* set_value without a ttl has just acted on an armed variable
C5_Witness ==
    /\ last.op = "set_value"
    /\ "ttl" \notin last.call.has
    /\ last.armed
    /\ timers[last.id] = 0

\* C6: whenever set_value, toggle, update-config or a TTL reset changes the
\* display state of a variable, a change event is fired whose old and new
\* display states are the variable's state before and after the step.
C6_EventOnEveryChange ==
    [][\A i \in Ids :
          (/\ last'.op \in {"set_value", "toggle", "update_config", "ttl_reset"}
           /\ last'.id = i
           /\ i \in DOMAIN ent
           /\ i \in DOMAIN ent')
          => /\ State(ent[i]) # State(ent'[i]) =>
                   /\ emitted'.fired
                   /\ emitted'.id = i
                   /\ emitted'.old_value = State(ent[i])
                   /\ emitted'.new_value = State(ent'[i])
             /\ emitted'.fired =>
                   /\ emitted'.old_value = State(ent[i])
                   /\ emitted'.new_value = State(ent'[i])]_vars

\* C7: set_value(v) without a ttl, called a second time right after the
\* first, leaves the variable and its TTL state as they were and fires no
\* change event.
C7_SetValueIdempotent ==
    [][\A i \in Ids :
          (/\ Did("set_value", i)
           /\ last'.repeat
           /\ "ttl" \notin last'.call.has)
          => /\ ent'[i] = ent[i]
             /\ timers'[i] = timers[i]
             /\ ~emitted'.fired]_vars

\* the second of two equal set_value calls has acted, after the first one
\* changed the display state
C7_Witness ==
    /\ last.op = "set_value"
    /\ last.repeat
    /\ "ttl" \notin last.call.has
    /\ last.id \in DOMAIN ent
    /\ ~emitted.fired
    /\ ent[last.id].value # NewVariable(ent[last.id].config).value

\* C8: a set for a name whose slug is stored overwrites the stored fields
\* the call holds and keeps the stored value, type, icon and attributes the
\* call does not hold.
C8_ShallowMerge ==
    [][\A i \in Ids :
          (Did("set", i) /\ i \in DOMAIN data)
          => /\ data'[i].value = Get(last'.call, "value", data[i].value)
             /\ data'[i].var_type = Get(last'.call, "var_type", data[i].var_type)
             /\ data'[i].icon = Get(last'.call, "icon", data[i].icon)
             /\ data'[i].attributes
                  = Get(last'.call, "attributes", data[i].attributes)]_vars

\* C9: after update-config every attribute the variable had and the new
\* config does not name is still there with its value.
C9_AttributesMerged ==
    [][\A i \in Ids :
          (Did("update_config", i) /\ i \in DOMAIN ent /\ i \in DOMAIN ent')
          => \A key \in DOMAIN ent[i].attributes :
                key \notin DOMAIN Get(ent'[i].config, "attributes", EmptyAttrs)
                => /\ key \in DOMAIN ent'[i].attributes
                   /\ ent'[i].attributes[key] = ent[i].attributes[key]]_vars

\* C10: after set_value, toggle or a TTL reset, the variable rebuilt from
\* the persisted record has the variable's current value.
C10_PersistedValueCurrent ==
    (/\ last.op \in {"set_value", "toggle", "ttl_reset"}
     /\ last.id \in DOMAIN ent
     /\ last.id \in DOMAIN data)
    => NewVariable(data[last.id]).value = ent[last.id].value

\* C11: after a restart every stored record has a variable whose value is
\* the record's value coerced to the record's type, whose attributes are the
\* record's, and which has no expiry record and no pending callback.
C11_RestartRoundTrip ==
    last.op = "restart" =>
        /\ DOMAIN ent = DOMAIN data
        /\ \A i \in DOMAIN data :
              /\ ent[i].var_type = data[i].var_type
              /\ ent[i].value = Coerce(data[i].var_type, data[i].value)
              /\ ent[i].value.k = "none" \/ InDomain(data[i].var_type, ent[i].value)
              /\ ent[i].attributes = data[i].attributes
              /\ ~ent[i].ttl_unsub
              /\ ent[i].expires_at = 0
              /\ ent[i].expire_to = PyNone
              /\ ent[i].expire_action = DEFAULT_EXPIRE_ACTION
              /\ timers[i] = 0

\* a restart while a TTL was armed has rebuilt a number variable from a
\* record that stores its value as a string
C11_Witness ==
    /\ last.op = "restart"
    /\ last.armed
    /\ \E i \in DOMAIN ent :
          /\ data[i].value.k = "str"
          /\ ent[i].value.k \in {"int", "float"}
    /\ \E i \in DOMAIN ent : ent[i].attributes # EmptyAttrs

C13_DeletePrefixExact ==
    [][/\ (last'.op = "delete_prefix" /\ calls' # calls) =>
             LET t == tasks'[Len(tasks')]
             IN  /\ {t.id} \cup {t.rest[j] : j \in 1..Len(t.rest)}
                        = {i \in DOMAIN data : StartsWith(i, Slugify(last'.call.name))}
                 /\ t.total = Cardinality({i \in DOMAIN data :
                                    StartsWith(i, Slugify(last'.call.name))})
       /\ (last'.op = "delete_prefix" /\ last' # last) =>
             /\ last'.id \in DOMAIN data
             /\ StartsWith(last'.id, Slugify(last'.call.name))
             /\ data' = Pop(data, last'.id)
       /\ (last'.op = "delete_prefix_none" /\ last' # last) =>
             /\ data' = data
             /\ \A i \in DOMAIN data : ~StartsWith(i, Slugify(last'.call.name))
       /\ (last'.op = "delete_prefix_done" /\ last' # last) =>
             \E k \in 1..Len(tasks) :
                /\ tasks[k].pc = "prefix_next"
                /\ tasks[k].rest = <<>>
                /\ last'.count = tasks[k].total
       /\ last'.op # "delete_prefix_raised"]_vars

\* C14: a delete of an unknown id changes nothing, and a delete_prefix that
\* comes to an id of its snapshot that has left the store in the meantime
\* does not fail on it.
C14_DeleteNeverFails ==
    [][/\ \A i \in Ids : Did("delete_unknown", i) =>
             UNCHANGED <<data, order, ent, timers, tasks>>
       /\ \A k \in 1..Len(tasks) :
             (/\ tasks[k].pc = "prefix_next"
              /\ tasks[k].rest # <<>>
              /\ Head(tasks[k].rest) \notin DOMAIN data
              /\ tasks' = Without(tasks, k)) =>
                 last'.op # "delete_prefix_raised"]_vars

\* C15: a config update of a live variable, and the store step of the set
\* call that causes it, leave the variable's TTL as it was: the handle, the
\* expiry time, the reset value, the expiry action and the pending callback
\* are the same after as before; a set call without ttl ends there.
C15_UpdateConfigKeepsTtl ==
    [][\A i \in Ids :
          /\ (Did("update_config", i) /\ i \in DOMAIN ent) =>
                /\ i \in DOMAIN ent'
                /\ ent'[i].ttl_unsub = ent[i].ttl_unsub
                /\ ent'[i].expires_at = ent[i].expires_at
                /\ ent'[i].expire_to = ent[i].expire_to
                /\ ent'[i].expire_action = ent[i].expire_action
                /\ timers' = timers
                /\ capture' = capture
                /\ "ttl" \notin last'.call.has => Len(tasks') = Len(tasks) - 1
          /\ Did("set", i) => ent' = ent /\ timers' = timers /\ capture' = capture]_vars

\* a set call without ttl has just updated a variable whose TTL is armed
C15_Witness ==
    /\ last.op = "update_config"
    /\ last.armed
    /\ "ttl" \notin last.call.has
    /\ Armed(last.id)
    /\ timers[last.id] = 1
    /\ ent[last.id].expires_at # 0

\* C16: toggle on a boolean variable replaces the value by its negation (a
\* missing value counts as off), changes the display state and emits one
\* event carrying the old and the new state; toggle on a number or string
\* variable changes nothing and emits no event; neither touches the TTL.
C16_Toggle ==
    [][\A i \in Ids : Did("toggle", i) =>
          /\ i \in DOMAIN ent /\ i \in DOMAIN ent'
          /\ timers' = timers /\ data' = data
          /\ IF ent[i].var_type = TYPE_BOOLEAN
             THEN /\ ent'[i].value.k = "bool"
                  /\ Truthy(ent'[i].value) = ~Truthy(ent[i].value)
                  /\ State(ent'[i]) # State(ent[i])
                  /\ ent[i].value.k = "none" => State(ent'[i]) = PyStr(STATE_ON)
                  /\ emitted'.fired
                  /\ emitted'.id = i
                  /\ emitted'.old_value = State(ent[i])
                  /\ emitted'.new_value = State(ent'[i])
             ELSE /\ ent'[i] = ent[i]
                  /\ ~emitted'.fired]_vars

\* a toggle has just switched a boolean variable on and emitted its event
C16_Witness ==
    /\ last.op = "toggle"
    /\ emitted.fired
    /\ last.id \in DOMAIN ent
    /\ ent[last.id].value = PyBool(TRUE)

\* C17: a set or set_value call whose ttl is below 1 is rejected before
\* anything changes: the store, every variable (value, attributes, config,
\* TTL record), the pending callbacks and the suspended handlers are as
\* before, and no event is emitted.
C17_InvalidTtlRejected ==
    [][(/\ calls' # calls
        /\ last'.op \in {"set", "set_value", "set_invalid", "set_value_invalid"}
        /\ "ttl" \in last'.call.has
        /\ last'.call.ttl < 1) =>
           /\ UNCHANGED <<data, order, ent, timers, tasks, capture>>
           /\ ~emitted'.fired]_vars

\* a call with an invalid ttl has been rejected for a variable whose TTL is
\* armed, and the TTL is still armed
C17_Witness ==
    /\ last.op \in {"set_invalid", "set_value_invalid"}
    /\ last.call.ttl < 1
    /\ last.armed
    /\ Armed(last.id)
    /\ timers[last.id] = 1

\* C18: when a set call with a ttl completes, and no other handler was
\* suspended when it started and no other service call was made since (only
\* its own listener and TTL callbacks armed earlier ran in between),
\* the variable exists, its value is the call's value coerced to the call's
\* type, and exactly the TTL the call asked for is armed.
C18_SetIsOneUnit ==
    [][\A k \in 1..Len(tasks) :
          (/\ tasks[k].pc = "apply_ttl"
           /\ last'.op = "apply_ttl"
           /\ tasks' = Without(tasks, k)
           /\ tasks[k].solo
           /\ calls = tasks[k].at + 1) =>
              LET t == tasks[k]
                  i == t.id
              IN  /\ i \in DOMAIN ent'
                  /\ ent'[i].value = Coerce(t.call.var_type, t.call.value)
                  /\ ent'[i].ttl_unsub
                  /\ timers'[i] = 1
                  /\ capture'[i] = Asked(ent'[i].var_type, t.call)]_vars

\* C19: with a scheduler that runs due callbacks, a variable whose TTL is
\* armed is later not armed (the TTL has fired or was cancelled), whatever
\* else happens.
C19_ArmedTtlLeaves ==
    \A i \in Ids : Armed(i) ~> ~Armed(i)

\* the scheduler has just run the callback of an armed TTL, and the variable
\* is no longer armed
C19_Witness ==
    /\ last.op \in {"ttl_reset", "ttl_delete"}
    /\ last.armed
    /\ ~Armed(last.id)
    /\ timers[last.id] = 0

\* C20: in every reachable state a variable records an expiry time, and
\* publishes it as the expires_at attribute, exactly when it holds the handle
\* of a pending callback, and a variable without an armed TTL has no reset
\* value and the default expiry action.
C20_TtlRecordConsistent ==
    \A i \in DOMAIN ent :
        /\ ent[i].expires_at # 0 <=> ent[i].ttl_unsub
        /\ "expires_at" \in ExtraStateAttributes(ent[i]).has <=> ent[i].ttl_unsub
        /\ ent[i].ttl_unsub <=> timers[i] = 1
        /\ ~ent[i].ttl_unsub =>
              /\ ent[i].expire_to = PyNone
              /\ ent[i].expire_action = DEFAULT_EXPIRE_ACTION

\* a variable whose TTL was armed is idle again after the TTL has fired or a
\* set_value has cancelled it
C20_Witness ==
    /\ last.armed
    /\ last.id \in DOMAIN ent
    /\ ~ent[last.id].ttl_unsub
    /\ last.op \in {"ttl_reset", "ttl_delete", "set_value"}
    /\ ent[last.id].expires_at = 0

\* C21: a toggle of a boolean variable whose TTL is armed leaves the handle,
\* the expiry time, the reset value, the expiry action and the pending
\* callback as they were, and when that callback then runs with the reset
\* action the value becomes the reset value captured when the TTL was armed.
C21_ToggleKeepsTtl ==
    [][\A i \in Ids :
          /\ (Did("toggle", i) /\ Armed(i) /\ ent[i].var_type = TYPE_BOOLEAN) =>
                /\ ent'[i].value # ent[i].value
                /\ ent'[i].ttl_unsub
                /\ ent'[i].expires_at = ent[i].expires_at
                /\ ent'[i].expire_to = ent[i].expire_to
                /\ ent'[i].expire_action = ent[i].expire_action
                /\ timers'[i] = 1 /\ timers' = timers
                /\ capture' = capture
          /\ (Did("ttl_reset", i) /\ last'.after_toggle) =>
                /\ capture[i].to = ent[i].expire_to
                /\ ent'[i].value = capture[i].to
                /\ ~Armed(i)']_vars

\* the TTL of a boolean variable has fired right after a toggle of the armed
\* variable and has reset the toggled value, with an event
C21_Witness ==
    /\ last.op = "ttl_reset"
    /\ last.after_toggle
    /\ last.id \in DOMAIN ent
    /\ ent[last.id].var_type = TYPE_BOOLEAN
    /\ emitted.fired
    /\ ent[last.id].value = PyBool(FALSE)

====
